---- MODULE Spec2Model ----
(***************************************************************************)
(* Model of aws-tagging-compliance-generator.                              *)
(*                                                                         *)
(*   src/src/role_policy.py     main -> filter -> generate_policy ->       *)
(*                              slice_list -> one document per group       *)
(*   src/src/resource_action.py process_topic_page: the row walk over the  *)
(*                              actions table of one documentation page    *)
(*                                                                         *)
(* Python strings are TLA+ strings (Len, \o and SubSeq act on them), so    *)
(* len(), startswith(), "in" and json.dumps() are computed on the text.    *)
(* Python's mutable objects (dict, list) live in a heap and are referred   *)
(* to by address, so aliasing between documents is observable.             *)
(***************************************************************************)
EXTENDS Integers, Sequences, FiniteSets, TLC

VARIABLES
    entry,            \* which function the run was started at
    pc,               \* position in role_policy.py
    catalog,          \* main: `actions`, the content of _actions.json
    resource,         \* generate_policy: resource
    actions,          \* generate_policy / slice_list: actions
    max_char_count,   \* generate_policy: max_char_count
    policy_template,  \* generate_policy: address of the template dict
    max_action_char,  \* generate_policy: max_action_char = slice_list's char_limit
    idx,              \* number of elements the current for loop has consumed
    current_slice,    \* slice_list: address of the list current_slice
    current_length,   \* slice_list: current_length
    result,           \* slice_list: result (addresses of the group lists)
    policies,         \* generate_policy: policies (addresses of the documents)
    heap,             \* the Python objects, by kind and address
    touched,          \* indices of returned documents the caller has mutated
    raised,           \* exception that ended the run, "none" if none
    rows,             \* process_topic_page: rows of tables[0]
    i,                \* process_topic_page: i
    action,           \* process_topic_page: action (closure variable of process_row)
    cells,            \* process_topic_page: cells
    left,             \* process_topic_page: iterations left in `for _ in range(rowspan - 1)`
    examined,         \* history: <<row index, action>> of every process_row call
    filtered_actions, \* process_topic_page: filtered_actions
    spc               \* position in process_topic_page

policyVars == <<entry, pc, catalog, resource, actions, max_char_count, policy_template,
                max_action_char, idx, current_slice, current_length, result, policies,
                heap, touched, raised>>
scrapeVars == <<rows, i, action, cells, left, examined, filtered_actions, spc>>
vars == <<policyVars, scrapeVars>>

-----------------------------------------------------------------------------
(* Bounds *)
MaxActions == 3      \* longest action list handed to main / generate_policy
MaxSlack == 24       \* max_char_count ranges up to len(template) + MaxSlack
MaxDeficit == 1      \* ... and down to len(template) - MaxDeficit
MaxMutations == 1    \* documents the caller mutates after the return
MaxRows == 4         \* body rows of the scraped table
MaxRowspan == 3      \* largest rowspan of an action cell

-----------------------------------------------------------------------------
(* Strings *)

\* str.startswith(prefix)
StartsWith(s, prefix) ==
    /\ Len(prefix) <= Len(s)
    /\ SubSeq(s, 1, Len(prefix)) = prefix

\* sub in s
Contains(s, sub) ==
    \E k \in 1..(Len(s) - Len(sub) + 1) : SubSeq(s, k, k + Len(sub) - 1) = sub

\* s.find(sub) + 1, 0 when absent
Find(s, sub) ==
    IF Contains(s, sub)
    THEN CHOOSE k \in 1..(Len(s) - Len(sub) + 1) :
            /\ SubSeq(s, k, k + Len(sub) - 1) = sub
            /\ \A m \in 1..(k - 1) : SubSeq(s, m, m + Len(sub) - 1) # sub
    ELSE 0

RECURSIVE Join(_, _)
\* sep.join(parts)
Join(parts, sep) ==
    IF parts = <<>> THEN ""
    ELSE IF Len(parts) = 1 THEN parts[1]
    ELSE parts[1] \o sep \o Join(Tail(parts), sep)

RECURSIVE Flatten(_)
\* concatenation of a sequence of sequences
Flatten(ss) ==
    IF ss = <<>> THEN <<>> ELSE Head(ss) \o Flatten(Tail(ss))

\* all sequences over S of length at most n
SeqsUpTo(S, n) == UNION {[1..m -> S] : m \in 0..n}


-----------------------------------------------------------------------------
(* The heap: one store per kind of mutable object, an address is an index *)
(*   dict : the policy dict          [Version, Statement -> list]          *)
(*   list : the "Statement" list     sequence of stmt addresses            *)
(*   stmt : a statement dict         [Sid, Effect, Action -> act,          *)
(*                                    Resource, Condition -> cond]         *)
(*   act  : a list of action strings                                       *)
(*   cond : the "Condition" dict     [Null -> null]                        *)
(*   null : the "Null" dict          sequence of <<key, value>>            *)

EmptyHeap == [dict |-> <<>>, list |-> <<>>, stmt |-> <<>>, act |-> <<>>,
              cond |-> <<>>, null |-> <<>>]

\* the dict literal policy_template = {...}; the new dict is the last of h.dict
NewTemplate(h, res) ==
    [dict |-> Append(h.dict, [Version |-> "2012-10-17", Statement |-> Len(h.list) + 1]),
     list |-> Append(h.list, <<Len(h.stmt) + 1>>),
     stmt |-> Append(h.stmt, [Sid |-> "Deny" \o res,
                              Effect |-> "Deny",
                              Action |-> Len(h.act) + 1,
                              Resource |-> "*",
                              Condition |-> Len(h.cond) + 1]),
     act  |-> Append(h.act, <<>>),
     cond |-> Append(h.cond, [Null |-> Len(h.null) + 1]),
     null |-> Append(h.null, << <<"aws:RequestTag/CostCentre", "true">>,
                                <<"aws:PrincipalTag/ByassTaggingScp", "true">> >>)]

\* copy.copy(h.dict[d]): a new dict whose values are the same objects
ShallowCopy(h, d) ==
    [h EXCEPT !.dict = Append(h.dict, h.dict[d])]

\* deepcopy(h.dict[d]): every mutable object reachable from d is copied;
\* the new dict is the last of h.dict
Deepcopy(h, d) ==
    LET L == h.list[h.dict[d].Statement]
        n == Len(L)
    IN  [dict |-> Append(h.dict, [h.dict[d] EXCEPT !.Statement = Len(h.list) + 1]),
         list |-> Append(h.list, [k \in 1..n |-> Len(h.stmt) + k]),
         stmt |-> h.stmt \o [k \in 1..n |->
                     [h.stmt[L[k]] EXCEPT !.Action = Len(h.act) + k,
                                          !.Condition = Len(h.cond) + k]],
         act  |-> h.act \o [k \in 1..n |-> h.act[h.stmt[L[k]].Action]],
         cond |-> h.cond \o [k \in 1..n |-> [Null |-> Len(h.null) + k]],
         null |-> h.null \o [k \in 1..n |-> h.null[h.cond[h.stmt[L[k]].Condition].Null]]]

\* policy["Statement"][0]["Action"] = a
SetAction(h, d, a) ==
    [h EXCEPT !.stmt[h.list[h.dict[d].Statement][1]].Action = a]

-----------------------------------------------------------------------------
(* json.dumps with the default separators (", " and ": ") *)

Quote(s) == "\"" \o s \o "\""

DumpsList(items) == "[" \o Join(items, ", ") \o "]"

DumpsDict(pairs) ==
    "{" \o Join([k \in 1..Len(pairs) |-> Quote(pairs[k][1]) \o ": " \o pairs[k][2]], ", ") \o "}"

DumpsStmt(h, s) ==
    LET st == h.stmt[s] IN
    DumpsDict(<< <<"Sid", Quote(st.Sid)>>,
                 <<"Effect", Quote(st.Effect)>>,
                 <<"Action", DumpsList([k \in 1..Len(h.act[st.Action]) |->
                                           Quote(h.act[st.Action][k])])>>,
                 <<"Resource", Quote(st.Resource)>>,
                 <<"Condition", DumpsDict(<< <<"Null",
                     DumpsDict([k \in 1..Len(h.null[h.cond[st.Condition].Null]) |->
                         <<h.null[h.cond[st.Condition].Null][k][1],
                           Quote(h.null[h.cond[st.Condition].Null][k][2])>>])>> >>)>> >>)

\* json.dumps(h.dict[d])
Dumps(h, d) ==
    LET L == h.list[h.dict[d].Statement] IN
    DumpsDict(<< <<"Version", Quote(h.dict[d].Version)>>,
                 <<"Statement", DumpsList([k \in 1..Len(L) |-> DumpsStmt(h, L[k])])>> >>)

-----------------------------------------------------------------------------
(* role_policy.py *)

INCLUDE_SERVICES == {
    "acm", "acm-pca", "amplify", "amplifyuibuilder", "apigateway",
    "appconfig", "applicationinsights", "athena", "auditmanager",
    "autoscaling", "aws-marketplace", "backup", "backup-gateway", "batch",
    "bedrock", "cloudformation", "cloudfront", "cloudtrail", "cloudwatch",
    "codecommit", "codedeploy", "datasync", "ebs", "ec2", "ecr",
    "ecr-public", "ecs", "eks", "elasticache", "elasticbeanstalk",
    "elasticfilesystem", "elasticloadbalancing", "es", "events", "firehose",
    "glacier", "glue", "grafana", "guardduty", "iam", "kinesisanalytics",
    "kinesisvideo", "kms", "lambda", "logs", "quicksight", "ram", "rds",
    "redshift", "redshift-serverless", "s3", "sagemaker", "secretsmanager",
    "sns", "sqlworkbench", "sqs", "ssm", "sso", "states", "storagegateway",
    "sts", "swf", "vpc-lattice", "waf", "waf-regional", "wafv2", "xray"}

\* len(f'"{action}, "')
Cost(a) == Len("\"" \o a \o ", \"")

\* the condition of the list comprehension in main
Keep(a) ==
    /\ \E prefix \in INCLUDE_SERVICES : StartsWith(a, prefix)
    /\ Contains(a, "Create")

\* `if current_slice:` result.append(current_slice), at the end of slice_list
FlushAlways(h, cs, res) == Append(res, cs)
FlushNever(h, cs, res) == res
Flush(h, cs, res) ==
    IF h.act[cs] # <<>> THEN Append(res, cs) ELSE res

\* the deep value of the document at address d
DocValue(h, d) ==
    [Version |-> h.dict[d].Version,
     Statement |-> [k \in 1..Len(h.list[h.dict[d].Statement]) |->
        LET st == h.stmt[h.list[h.dict[d].Statement][k]] IN
        [Sid |-> st.Sid, Effect |-> st.Effect, Action |-> h.act[st.Action],
         Resource |-> st.Resource,
         Condition |-> [Null |-> h.null[h.cond[st.Condition].Null]]]]]

\* inputs
CatalogPool == {"s3:CreateBucket", "s3:GetObject", "s3express:CreateSession",
                "route53:CreateHostedZone", "s3Create:GetObject", "ec2CreateVpc"}
ActionPool == {"a:b", "s3:Put", "ec2:Create"}
Resources == {"all", "s3"}

\* len(json.dumps(policy_template)) for a resource
TemplateLen(res) == Len(Dumps(NewTemplate(EmptyHeap, res), 1))

ScrapeIdle ==
    /\ rows = <<>> /\ i = 0 /\ action = "" /\ cells = <<>> /\ left = 0
    /\ examined = <<>> /\ filtered_actions = <<>> /\ spc = "idle"

Init ==
    /\ entry \in {"main", "generate_policy"}
    /\ IF entry = "main"
       THEN /\ pc = "main"
            /\ catalog \in SeqsUpTo(CatalogPool, MaxActions)
            /\ actions = <<>>
            /\ resource = ""
            /\ max_char_count = 0
       ELSE /\ pc = "generate_policy"
            /\ catalog = <<>>
            /\ actions \in SeqsUpTo(ActionPool, MaxActions)
            /\ resource \in Resources
            /\ max_char_count \in (TemplateLen(resource) - MaxDeficit)..
                                  (TemplateLen(resource) + MaxSlack)
    /\ policy_template = 0
    /\ max_action_char = 0
    /\ idx = 0
    /\ current_slice = 0
    /\ current_length = 0
    /\ result = <<>>
    /\ policies = <<>>
    /\ heap = EmptyHeap
    /\ touched = {}
    /\ raised = "none"
    /\ ScrapeIdle

\* main: the list comprehension and the call of generate_policy
Filter ==
    /\ pc = "main"
    /\ actions' = SelectSeq(catalog, Keep)
    /\ resource' = "all"
    /\ max_char_count' = 5000
    /\ pc' = "generate_policy"
    /\ UNCHANGED <<entry, catalog, policy_template, max_action_char, idx, current_slice,
                   current_length, result, policies, heap, touched, raised>>
    /\ UNCHANGED scrapeVars

\* generate_policy up to the call of slice_list, and slice_list's first three lines
GeneratePolicy ==
    /\ pc = "generate_policy"
    /\ LET h1 == NewTemplate(heap, resource)
           t == Len(h1.dict)
           estimated_json == Len(Dumps(h1, t))
       IN  /\ policy_template' = t
           /\ max_action_char' = max_char_count - estimated_json
           /\ heap' = [h1 EXCEPT !.act = Append(h1.act, <<>>)]
           /\ current_slice' = Len(h1.act) + 1
    /\ current_length' = 0
    /\ result' = <<>>
    /\ idx' = 0
    /\ pc' = "slice_list"
    /\ UNCHANGED <<entry, catalog, resource, actions, max_char_count, policies,
                   touched, raised>>
    /\ UNCHANGED scrapeVars

\* slice_list, one iteration, the if branch
SliceAppend ==
    /\ pc = "slice_list"
    /\ idx < Len(actions)
    /\ current_length + Cost(actions[idx + 1]) <= max_action_char
    /\ heap' = [heap EXCEPT !.act[current_slice] = Append(@, actions[idx + 1])]
    /\ current_length' = current_length + Cost(actions[idx + 1])
    /\ idx' = idx + 1
    /\ UNCHANGED <<entry, pc, catalog, resource, actions, max_char_count, policy_template,
                   max_action_char, current_slice, result, policies, touched, raised>>
    /\ UNCHANGED scrapeVars

\* slice_list, one iteration, the else branch
SliceClose ==
    /\ pc = "slice_list"
    /\ idx < Len(actions)
    /\ ~(current_length + Cost(actions[idx + 1]) <= max_action_char)
    /\ result' = Append(result, current_slice)
    /\ heap' = [heap EXCEPT !.act = Append(@, <<actions[idx + 1]>>)]
    /\ current_slice' = Len(heap.act) + 1
    /\ current_length' = Len(actions[idx + 1])
    /\ idx' = idx + 1
    /\ UNCHANGED <<entry, pc, catalog, resource, actions, max_char_count, policy_template,
                   max_action_char, policies, touched, raised>>
    /\ UNCHANGED scrapeVars

\* slice_list after the loop, and `policies = []` of generate_policy
SliceReturn ==
    /\ pc = "slice_list"
    /\ idx = Len(actions)
    /\ result' = Flush(heap, current_slice, result)
    /\ policies' = <<>>
    /\ idx' = 0
    /\ pc' = "build"
    /\ UNCHANGED <<entry, catalog, resource, actions, max_char_count, policy_template,
                   max_action_char, current_slice, current_length, heap, touched, raised>>
    /\ UNCHANGED scrapeVars

\* generate_policy, one iteration of `for trimmed_actions in trimmed_action_list`
BuildPolicy ==
    /\ pc = "build"
    /\ idx < Len(result)
    /\ LET h1 == Deepcopy(heap, policy_template)
           policy == Len(h1.dict)
       IN  /\ heap' = SetAction(h1, policy, result[idx + 1])
           /\ policies' = Append(policies, policy)
    /\ idx' = idx + 1
    /\ UNCHANGED <<entry, pc, catalog, resource, actions, max_char_count, policy_template,
                   max_action_char, current_slice, current_length, result, touched, raised>>
    /\ UNCHANGED scrapeVars

\* generate_policy: return policies (return_json=False)
Return ==
    /\ pc = "build"
    /\ idx = Len(result)
    /\ pc' = "returned"
    /\ UNCHANGED <<entry, catalog, resource, actions, max_char_count, policy_template,
                   max_action_char, idx, current_slice, current_length, result, policies,
                   heap, touched, raised>>
    /\ UNCHANGED scrapeVars

\* the in-place updates a caller of generate_policy can make to policies[d]
MutationKinds == {"Version", "Statement", "Sid", "Action", "Condition"}

MutateDoc(h, d, kind) ==
    LET L == h.list[h.dict[d].Statement]
        s == L[1]
    IN  CASE kind = "Version"   -> [h EXCEPT !.dict[d].Version = "2008-10-17"]
          [] kind = "Statement" -> [h EXCEPT !.list[h.dict[d].Statement] = <<>>]
          [] kind = "Sid"       -> [h EXCEPT !.stmt[s].Sid = "Changed"]
          [] kind = "Action"    -> [h EXCEPT !.act[h.stmt[s].Action] = Append(@, "iam:PassRole")]
          [] kind = "Condition" -> [h EXCEPT !.null[h.cond[h.stmt[s].Condition].Null] = <<>>]

\* the caller mutates one of the returned documents
Mutate ==
    /\ pc = "returned"
    /\ entry = "generate_policy"
    /\ Cardinality(touched) < MaxMutations
    /\ \E d \in (1..Len(policies)) \ touched : \E kind \in MutationKinds :
          /\ heap' = MutateDoc(heap, policies[d], kind)
          /\ touched' = touched \cup {d}
    /\ UNCHANGED <<entry, pc, catalog, resource, actions, max_char_count, policy_template,
                   max_action_char, idx, current_slice, current_length, result, policies,
                   raised>>
    /\ UNCHANGED scrapeVars

Next ==
    \/ Filter
    \/ GeneratePolicy
    \/ SliceAppend
    \/ SliceClose
    \/ SliceReturn
    \/ BuildPolicy
    \/ Return
    \/ Mutate

Spec == Init /\ [][Next]_vars

TypeOK ==
    /\ pc \in {"main", "generate_policy", "slice_list", "build", "returned"}
    /\ raised = "none"

-----------------------------------------------------------------------------
(* Properties of role_policy.py *)

\* generate_policy has returned and the caller has not changed anything yet
Returned == pc = "returned" /\ touched = {}

\* slice_list has returned
Sliced == pc \in {"build", "returned"} /\ touched = {}

\* the groups of result, by value
Groups == [k \in 1..Len(result) |-> heap.act[result[k]]]

\* the Action list of the k-th returned document
DocActions(k) == DocValue(heap, policies[k]).Statement[1].Action

\* the text before / after the first ':' of a well-formed action
ServicePrefix(a) == SubSeq(a, 1, Find(a, ":") - 1)
OperationName(a) == SubSeq(a, Find(a, ":") + 1, Len(a))

\* the document generate_policy is to build for a group
ExpectedDoc(res, group) ==
    [Version |-> "2012-10-17",
     Statement |-> << [Sid |-> "Deny" \o res, Effect |-> "Deny", Action |-> group,
                       Resource |-> "*",
                       Condition |-> [Null |-> << <<"aws:RequestTag/CostCentre", "true">>,
                                                  <<"aws:PrincipalTag/ByassTaggingScp", "true">> >>]] >>]

\* C1: every document returned by generate_policy serializes (json.dumps,
\* default separators) to at most max_char_count characters.
C1_BudgetInvariant ==
    Returned => \A k \in 1..Len(policies) : Len(Dumps(heap, policies[k])) <= max_char_count

\* C2: the groups returned by slice_list, concatenated in emission order, are
\* exactly the input list (nothing lost, duplicated or reordered), and so are
\* the Action lists of the documents returned by generate_policy.
C2_OrderCoverage ==
    /\ Sliced => Flatten(Groups) = actions
    /\ Returned => Flatten([k \in 1..Len(policies) |-> DocActions(k)]) = actions

\* C2 witness: a returned run of two or more documents over an input that
\* repeats an action
C2_Witness ==
    /\ Returned
    /\ Len(policies) >= 2
    /\ \E m, n \in 1..Len(actions) : m < n /\ actions[m] = actions[n]

\* C3: when some action cannot fit in any group (its rendered length as the
\* only element, len + 2, exceeds char_limit), packing raises
\* PackingOverflowError and produces no group and no document.
C3_OverflowDetection ==
    (/\ Sliced
     /\ \E k \in 1..Len(actions) : Len(Quote(actions[k])) > max_action_char)
    => /\ raised = "PackingOverflowError"
       /\ result = <<>>
       /\ policies = <<>>

\* C4: over a catalog of well-formed actions, the filtered list of main is
\* the subsequence of the actions whose service prefix is a member of
\* INCLUDE_SERVICES and whose operation name contains "Create".
C4_IncludeFilter ==
    (/\ entry = "main"
     /\ pc # "main"
     /\ \A k \in 1..Len(catalog) : Contains(catalog[k], ":"))
    => actions = SelectSeq(catalog,
                    LAMBDA a : /\ ServicePrefix(a) \in INCLUDE_SERVICES
                               /\ Contains(OperationName(a), "Create"))

\* C5: for consecutive groups, the earlier group's document with the first
\* action of the later group appended would exceed max_char_count.
C5_GreedyMinimality ==
    Returned =>
        \A k \in 1..(Len(policies) - 1) :
            LET h2 == [heap EXCEPT !.act[result[k]] = Append(@, heap.act[result[k + 1]][1])]
            IN  Len(Dumps(h2, policies[k])) > max_char_count

\* C6: an empty action list gives zero groups and zero documents, whatever
\* the char_limit.
C6_EmptyInput ==
    (pc \in {"build", "returned"} /\ actions = <<>>) => (result = <<>> /\ policies = <<>>)

\* C6 witness: generate_policy returned for an empty list with a negative char_limit
C6_Witness ==
    Returned /\ entry = "generate_policy" /\ actions = <<>> /\ max_action_char < 0

\* C7: a catalog holding an action without ':' makes the filter fail with
\* ActionFormatError, and no such action reaches the packer.
C7_MalformedAction ==
    (/\ entry = "main"
     /\ pc # "main"
     /\ \E k \in 1..Len(catalog) : ~Contains(catalog[k], ":"))
    => /\ raised = "ActionFormatError"
       /\ \A k \in 1..Len(actions) : Contains(actions[k], ":")

\* C8: each returned document is its own group under Sid "Deny" + resource,
\* Effect "Deny", Resource "*"; the template keeps its empty Action list; and
\* a caller's mutation of one returned document leaves every other returned
\* document unchanged.
C8_DocumentIndependence ==
    /\ [](Returned =>
            /\ \A e \in 1..Len(policies) :
                  DocValue(heap, policies[e]) = ExpectedDoc(resource, Groups[e])
            /\ DocValue(heap, policy_template) = ExpectedDoc(resource, <<>>))
    /\ [][pc = "returned" =>
            /\ \A e \in 1..Len(policies) :
                e \notin touched' => DocValue(heap', policies[e]) = DocValue(heap, policies[e])
            /\ DocValue(heap', policy_template) = DocValue(heap, policy_template)]_vars

\* C8 witness: one of two or more returned documents has been mutated
C8_Witness ==
    pc = "returned" /\ touched # {} /\ Len(policies) >= 2

\* C9: every group of result holds at least one action.
C9_NoEmptyGroup ==
    touched = {} => \A k \in 1..Len(result) : heap.act[result[k]] # <<>>

-----------------------------------------------------------------------------
(* resource_action.py: process_topic_page *)

DESIRED_CONDITION == "aws:RequestTag/${TagKey}"

\* code_block.text.strip() of the page
service_prefix == "ec2"

IsSpace(c) == c \in {" ", "\n", "\t"}

\* text.strip().split()[0]
FirstToken(text) ==
    LET n == Len(text)
        b == CHOOSE k \in 1..(n + 1) :
                /\ k = n + 1 \/ ~IsSpace(SubSeq(text, k, k))
                /\ \A m \in 1..(k - 1) : IsSpace(SubSeq(text, m, m))
        e == CHOOSE k \in b..(n + 1) :
                /\ k = n + 1 \/ IsSpace(SubSeq(text, k, k))
                /\ \A m \in b..(k - 1) : ~IsSpace(SubSeq(text, m, m))
    IN  SubSeq(text, b, e - 1)

\* a <tr>: rowspan is the attribute of its first <td> (0: no attribute),
\* cells the texts of its <td>s
HeaderRow == [rowspan |-> 0, cells |-> <<>>]

ActionTexts == {"CreateVolume", " RunInstances [permission only]"}
ConditionTexts == {"", "aws:RequestTag/${TagKey} aws:TagKeys"}

\* the rows of one action: the row of the action cell, then span - 1 rows
\* that the action cell spans (resource type, condition keys)
GroupRows(text, attr, conds) ==
    [k \in 1..Len(conds) |->
        IF k = 1 THEN [rowspan |-> attr, cells |-> <<text, "volume*", conds[1]>>]
                 ELSE [rowspan |-> 0, cells |-> <<"snapshot", conds[k]>>]]

RECURSIVE BodyRows(_)
\* the bodies of exactly n rows a well-formed actions table can have
BodyRows(n) ==
    IF n = 0 THEN {<<>>}
    ELSE UNION {
            {GroupRows(text, attr, conds) \o rest :
                text \in ActionTexts,
                attr \in (IF span = 1 THEN {0, 1} ELSE {span}),
                conds \in [1..span -> ConditionTexts],
                rest \in BodyRows(n - span)} :
            span \in 1..(IF n < MaxRowspan THEN n ELSE MaxRowspan)}

PolicyIdle ==
    /\ entry = "process_topic_page" /\ pc = "idle" /\ catalog = <<>> /\ resource = ""
    /\ actions = <<>> /\ max_char_count = 0 /\ policy_template = 0 /\ max_action_char = 0
    /\ idx = 0 /\ current_slice = 0 /\ current_length = 0 /\ result = <<>>
    /\ policies = <<>> /\ heap = EmptyHeap /\ touched = {} /\ raised = "none"

\* tables[0] has been parsed: rows = table.find_all('tr'); i = 1
InitScrape ==
    /\ PolicyIdle
    /\ rows \in {<<HeaderRow>> \o body : body \in UNION {BodyRows(n) : n \in 0..MaxRows}}
    /\ i = 1
    /\ action = ""
    /\ cells = <<>>
    /\ left = 0
    /\ examined = <<>>
    /\ filtered_actions = <<>>
    /\ spc = "while"

\* rows[r] with Python's index
Row(r) == rows[r + 1]

\* process_row(cs): what it appends to filtered_actions
ProcessRow(cs, act) ==
    LET hits == SelectSeq(cs, LAMBDA text : Contains(text, DESIRED_CONDITION))
    IN  [k \in 1..Len(hits) |-> service_prefix \o ":" \o act]

\* range(rowspan - 1) as a count
Range(rowspan) == IF rowspan - 1 > 0 THEN rowspan - 1 ELSE 0

\* while i < len(rows): cells, action, and the test for 'rowspan'
WhileHead ==
    /\ spc = "while"
    /\ i < Len(rows)
    /\ cells' = Row(i).cells
    /\ action' = FirstToken(Row(i).cells[1])
    /\ IF Row(i).rowspan # 0
       THEN left' = Range(Row(i).rowspan) /\ spc' = "for"
       ELSE left' = 0 /\ spc' = "else"
    /\ UNCHANGED <<rows, i, examined, filtered_actions>>
    /\ UNCHANGED policyVars

\* one iteration of `for _ in range(rowspan - 1)`
ForBody ==
    /\ spc = "for"
    /\ left > 0
    /\ i < Len(rows)
    /\ cells' = Row(i).cells
    /\ filtered_actions' = filtered_actions \o ProcessRow(Row(i).cells, action)
    /\ examined' = Append(examined, <<i, action>>)
    /\ i' = i + 1
    /\ left' = left - 1
    /\ UNCHANGED <<rows, action, spc>>
    /\ UNCHANGED policyVars

\* the for loop is exhausted: i += 1 at the end of the while body
ForExit ==
    /\ spc = "for"
    /\ left = 0
    /\ i' = i + 1
    /\ spc' = "while"
    /\ UNCHANGED <<rows, action, cells, left, examined, filtered_actions>>
    /\ UNCHANGED policyVars

\* else: process_row(cells), then i += 1
ElseBranch ==
    /\ spc = "else"
    /\ filtered_actions' = filtered_actions \o ProcessRow(cells, action)
    /\ examined' = Append(examined, <<i, action>>)
    /\ i' = i + 1
    /\ spc' = "while"
    /\ UNCHANGED <<rows, action, cells, left>>
    /\ UNCHANGED policyVars

\* the while loop ends: return service, service_prefix, filtered_actions
ScrapeReturn ==
    /\ spc = "while"
    /\ ~(i < Len(rows))
    /\ spc' = "done"
    /\ UNCHANGED <<rows, i, action, cells, left, examined, filtered_actions>>
    /\ UNCHANGED policyVars

NextScrape ==
    \/ WhileHead
    \/ ForBody
    \/ ForExit
    \/ ElseBranch
    \/ ScrapeReturn

SpecScrape == InitScrape /\ [][NextScrape]_vars

RECURSIVE HeadOf(_, _)
\* the row holding the action cell that spans row r, searching from head row h
HeadOf(r, h) ==
    LET span == IF Row(h).rowspan > 1 THEN Row(h).rowspan ELSE 1
    IN  IF r < h + span THEN h ELSE HeadOf(r, h + span)

\* C10: when process_topic_page returns, every row after the header has been
\* examined by process_row exactly once, under the action name of the action
\* cell that spans it, and i has not run past the end of the table.
C10_RowCoverage ==
    /\ i <= Len(rows)
    /\ spc = "done" =>
         \A r \in 1..(Len(rows) - 1) :
            /\ Cardinality({m \in 1..Len(examined) : examined[m][1] = r}) = 1
            /\ \A m \in 1..Len(examined) :
                  examined[m][1] = r => examined[m][2] = FirstToken(Row(HeadOf(r, 1)).cells[1])

====
